---- MODULE Spec2Model ----
(***************************************************************************)
(* Avro format binding of the CloudEvents Go SDK.                          *)
(*                                                                         *)
(*   envelope codec : binding/format/avro/v2/avro.go                       *)
(*                    (Marshal, Unmarshal, ToAvro, FromAvro and helpers)   *)
(*   payload codec  : the data codec file (EncodeData, DecodeData,         *)
(*                    SetSchemaRegistry, getSchemaFor)                     *)
(*                                                                         *)
(* Go values of dynamic type (interface{} / any) are records with a type   *)
(* tag t and one field per representation, so that every value of the      *)
(* model has the same shape.  Go strings are TLA+ strings; byte slices are *)
(* sequences of numbers.                                                   *)
(***************************************************************************)
EXTENDS Integers, Sequences, FiniteSets, TLC

(***************************************************************************)
(* Bounds of the model.                                                    *)
(***************************************************************************)
MaxSec == 1        \* instants are 0..MaxSec seconds after the zero time
MaxDataLen == 1    \* payloads have at most MaxDataLen bytes
MaxSetCalls == 3   \* SetSchemaRegistry is called at most MaxSetCalls times

(***************************************************************************)
(* Attribute keys, avro.go:21-31.                                          *)
(***************************************************************************)
datacontenttype == "datacontenttype"
dataschema == "dataschema"
subject == "subject"
time == "time"
specversion == "specversion"
id == "id"
source == "source"
typ == "type"

RequiredNames == {specversion, id, source, typ}
OptionalNames == {datacontenttype, dataschema, subject, time}
ReservedNames == RequiredNames \cup OptionalNames

\* Extension names used by the model's events and records.
ExtNames == {"x", "y"}

\* A fixed enumeration of every attribute name of the model; a map is walked
\* in this order after the entry chosen to come first.
AllNames ==
  <<specversion, id, source, typ, datacontenttype, dataschema, subject, time,
    "x", "y">>

(***************************************************************************)
(* time.Time: an instant (sec, nsec) and the zone offset, in seconds, of   *)
(* its location.  zeroTime is avro.go:33.                                  *)
(***************************************************************************)
zeroTime == [sec |-> 0, nsec |-> 0, off |-> 0]

NSecs == {0, 1}
\* Zone offsets in seconds: UTC, one minute, and half a minute (a location
\* whose offset is no whole number of minutes, time.FixedZone("", 30)).
Offsets == {0, 60, 30}

IsZero(t) == t.sec = 0 /\ t.nsec = 0

\* t.Equal(u): the same instant, whatever the locations.
TimeEqual(t, u) == t.sec = u.sec /\ t.nsec = u.nsec

Pad2(n) == IF n < 10 THEN "0" \o ToString(n) ELSE ToString(n)

\* The fractional second of layout ".999999999": trailing zeros removed,
\* nothing at all for a whole second.
Frac(n) == IF n = 0 THEN "" ELSE ".000000001"

\* The zone of layout "Z07:00": "Z" for offset 0, else sign, hours and
\* minutes; the seconds of the offset are not printed.
Zone(zmin, isZ) ==
  IF isZ THEN "Z" ELSE "+" \o Pad2(zmin \div 60) \o ":" \o Pad2(zmin % 60)

\* The text of a wall-clock reading: local seconds, fraction, zone.
Render(lsec, nsec, zmin, isZ) ==
  "T" \o Pad2(lsec) \o Frac(nsec) \o Zone(zmin, isZ)

\* t.Format(time.RFC3339Nano): the wall clock of t in its own location,
\* followed by the location's offset cut to whole minutes.
FormatRFC3339Nano(t) ==
  Render(t.sec + t.off, t.nsec, t.off \div 60, t.off = 0)

\* Every reading the parser accepts within the bounds, with its text.
ParseTable ==
  { [txt |-> Render(l, n, z, isZ), lsec |-> l, nsec |-> n, zmin |-> z]
      : <<l, n, z, isZ>> \in
          { q \in (0..(MaxSec + 60)) \X NSecs \X (0..1) \X BOOLEAN :
              (q[4] => q[3] = 0) /\ q[1] >= q[3] * 60 } }

\* time.Parse(layout, s) for the layouts time.RFC3339Nano and time.RFC3339:
\* both accept the same texts (a fractional second is accepted after the
\* seconds field whether or not the layout has one).  The instant is the
\* wall clock less the printed offset.
TimeParse(s) ==
  IF \E p \in ParseTable : p.txt = s
    THEN LET p == CHOOSE p \in ParseTable : p.txt = s
         IN  [ok |-> TRUE,
              t |-> [sec |-> p.lsec - p.zmin * 60, nsec |-> p.nsec,
                     off |-> p.zmin * 60]]
    ELSE [ok |-> FALSE, t |-> zeroTime]

(***************************************************************************)
(* Dynamically typed values.                                               *)
(***************************************************************************)
\* A Go integer wider than 32 bits is kept as its low 32 bits i, read as a
\* signed number, and the bits above them hi (0 or -1 when the value fits
\* 32 bits).
Val(t, b, i, hi, s, h, y, tm) ==
  [t |-> t, b |-> b, i |-> i, hi |-> hi, s |-> s, h |-> h, y |-> y, tm |-> tm]

SignBits(i) == IF i < 0 THEN -1 ELSE 0

VNil == Val("nil", FALSE, 0, 0, "", "", << >>, zeroTime)
VBool(b) == Val("bool", b, 0, 0, "", "", << >>, zeroTime)
VInt32(i) == Val("int32", FALSE, i, SignBits(i), "", "", << >>, zeroTime)
VInt(i) == Val("int", FALSE, i, SignBits(i), "", "", << >>, zeroTime)
VInt64(hi, i) == Val("int64", FALSE, i, hi, "", "", << >>, zeroTime)
VFloat64(i) == Val("float64", FALSE, i, 0, "", "", << >>, zeroTime)
VString(s) == Val("string", FALSE, 0, 0, s, "", << >>, zeroTime)
VBytes(y) == Val("[]byte", FALSE, 0, 0, "", "", y, zeroTime)
\* types.URI and types.URIRef wrap a url.URL: scheme s and host h.
VURI(s, h) == Val("types.URI", FALSE, 0, 0, s, h, << >>, zeroTime)
VURIRef(s, h) == Val("types.URIRef", FALSE, 0, 0, s, h, << >>, zeroTime)
VTimestamp(tm) == Val("types.Timestamp", FALSE, 0, 0, "", "", << >>, tm)

\* url.URL.String() for a URL of scheme and host.
URLString(v) ==
  (IF v.s = "" THEN "" ELSE v.s \o ":") \o (IF v.h = "" THEN "" ELSE "//" \o v.h)

(***************************************************************************)
(* Errors: the operation that failed, the attribute it names, the cause    *)
(* it wraps and the type the cause names.                                  *)
(***************************************************************************)
Err(op, name, cause, type) ==
  [op |-> op, name |-> name, cause |-> cause, type |-> type]

NoErr == Err("", "", "", "")

EmptyMap == [n \in {} |-> VNil]

\* The order in which a range over a map with these keys visits them: Go
\* leaves the order unspecified.  The iterations of the loops below touch
\* distinct keys and so commute; only an early return depends on the order,
\* and it depends on nothing but which entry comes first among the failing
\* ones.  Every outcome is therefore produced by some order that starts at
\* a chosen key and goes on in the fixed enumeration.
RangeOrder(keys, first) ==
  IF first \in keys
    THEN <<first>> \o SelectSeq(AllNames, LAMBDA n : n \in keys /\ n # first)
    ELSE SelectSeq(AllNames, LAMBDA n : n \in keys)

\* The keys to start at: an entry under a required name is passed over
\* by ToAvro's and FromAvro's loops, wherever it comes.
Firsts(keys) ==
  IF keys \ RequiredNames = {} THEN {""} ELSE keys \ RequiredNames

(***************************************************************************)
(* The payload slot of a record (schema.CloudEventRecord.Data, of type     *)
(* any) and the payload of an event (Event.DataEncoded, a byte slice).     *)
(*   k = "nil"      no value                                               *)
(*   k = "[]byte"   a byte slice b; nilslice: the slice is a nil slice     *)
(*   k = "string"   a string whose bytes are b                             *)
(*   k = "map"      a map[string]any m                                     *)
(*   k = "bool"...  a value of another dynamic type                        *)
(***************************************************************************)
Slot(k, b, nilslice, m) == [k |-> k, b |-> b, nilslice |-> nilslice, m |-> m]

DNil == Slot("nil", << >>, FALSE, EmptyMap)
DBytes(b) == Slot("[]byte", b, FALSE, EmptyMap)
DNilBytes == Slot("[]byte", << >>, TRUE, EmptyMap)
DString(b) == Slot("string", b, FALSE, EmptyMap)
DMap(m) == Slot("map", << >>, FALSE, m)
DOther(k) == Slot(k, << >>, FALSE, EmptyMap)

\* A byte slice compared with nil: an event has a payload when its
\* DataEncoded is not the nil slice.
IsNilSlice(d) == d.k = "nil" \/ (d.k = "[]byte" /\ d.nilslice)

(***************************************************************************)
(* event.Event: the attributes of its context, its extensions and its      *)
(* payload.  The zero time stands for an unset time.                       *)
(***************************************************************************)
Event(sv, i, src, ty, dct, ds, sub, tm, ext, data) ==
  [specversion |-> sv, id |-> i, source |-> src, type |-> ty,
   datacontenttype |-> dct, dataschema |-> ds, subject |-> sub, time |-> tm,
   extensions |-> ext, data |-> data]

\* event.New(): a version 1.0 event with nothing set.
New == Event("1.0", "", "", "", "", "", "", zeroTime, EmptyMap, DNil)

\* types.Validate: the canonical attribute types pass unchanged, any other
\* dynamic type is an error that names the type.
CanonicalTypes ==
  {"bool", "int32", "string", "[]byte", "types.URI", "types.URIRef",
   "types.Timestamp"}

Validate(v) ==
  IF v.t \in CanonicalTypes
    THEN [val |-> v, err |-> NoErr]
    ELSE [val |-> VNil, err |-> Err("", "", "invalid CloudEvents value", v.t)]

\* Event.SetExtension(name, value): a nil value removes the extension, a
\* valid value is stored, an invalid one is recorded as a field error and
\* stores nothing.
SetExtension(e, name, v) ==
  IF v.t = "nil"
    THEN [e EXCEPT !.extensions =
            [n \in (DOMAIN e.extensions) \ {name} |-> e.extensions[n]]]
    ELSE IF Validate(v).err = NoErr
      THEN [e EXCEPT !.extensions = (name :> Validate(v).val) @@ e.extensions]
      ELSE e

\* Event.SetTime(t): a zero instant unsets the time.
SetTime(e, t) == [e EXCEPT !.time = IF IsZero(t) THEN zeroTime ELSE t]

\* Event.SetSpecVersion(v): the context is converted to a known version;
\* any other text is a field error and changes nothing.
SetSpecVersion(e, v) ==
  IF v \in {"1.0", "0.3"} THEN [e EXCEPT !.specversion = v] ELSE e

(***************************************************************************)
(* schema.CloudEventRecord                                                 *)
(***************************************************************************)
Record(attribute, data) == [Attribute |-> attribute, Data |-> data]

NilRecord == Record(EmptyMap, DNil)

(***************************************************************************)
(* attributeValueFor, avro.go:127-154                                      *)
(***************************************************************************)
attributeValueFor(v) ==
  LET vv == Validate(v) IN
  IF vv.err # NoErr THEN [val |-> VNil, err |-> vv.err]
  ELSE CASE vv.val.t = "bool" -> [val |-> vv.val, err |-> NoErr]
         [] vv.val.t = "int32" -> [val |-> VInt(vv.val.i), err |-> NoErr]
         [] vv.val.t = "string" -> [val |-> vv.val, err |-> NoErr]
         [] vv.val.t = "[]byte" -> [val |-> vv.val, err |-> NoErr]
         [] vv.val.t = "types.URI" ->
              [val |-> VString(URLString(vv.val)), err |-> NoErr]
         [] vv.val.t = "types.URIRef" ->
              [val |-> VString(URLString(vv.val)), err |-> NoErr]
         [] vv.val.t = "types.Timestamp" ->
              [val |-> VString(FormatRFC3339Nano(vv.val.tm)), err |-> NoErr]
         [] OTHER ->
              [val |-> VNil,
               err |-> Err("", "", "unsupported attribute type", v.t)]

(***************************************************************************)
(* ToAvro, avro.go:82-123.  toAvroExtensions is its loop over the          *)
(* extensions (lines 109-115), in the order given.                         *)
(***************************************************************************)
\* The loop over the extensions passing over a value it cannot encode.
RECURSIVE toAvroExtensions_skip(_, _, _)
toAvroExtensions_skip(attribute, extensions, order) ==
  IF order = << >> THEN [attribute |-> attribute, err |-> NoErr]
  ELSE LET name == Head(order)
           r == attributeValueFor(extensions[name])
       IN  IF r.err # NoErr
             THEN toAvroExtensions_skip(attribute, extensions, Tail(order))
             ELSE toAvroExtensions_skip((name :> r.val) @@ attribute,
                                        extensions, Tail(order))

RECURSIVE toAvroExtensions(_, _, _)
toAvroExtensions(attribute, extensions, order) ==
  IF order = << >> THEN [attribute |-> attribute, err |-> NoErr]
  ELSE LET name == Head(order)
           r == attributeValueFor(extensions[name])
       IN  IF r.err # NoErr
             THEN [attribute |-> EmptyMap,
                   err |-> Err("failed to encode extension attribute", name,
                               r.err.cause, r.err.type)]
             ELSE toAvroExtensions((name :> r.val) @@ attribute, extensions,
                                   Tail(order))

\* The required attributes with the id taken from the source.
toAvroRequired_idFromSource(e) ==
  (specversion :> VString(e.specversion)) @@ (id :> VString(e.source))
    @@ (source :> VString(e.source)) @@ (typ :> VString(e.type))

toAvroRequired(e) ==
  (specversion :> VString(e.specversion)) @@ (id :> VString(e.id))
    @@ (source :> VString(e.source)) @@ (typ :> VString(e.type))

\* The optional attributes with the time written whatever it is.
toAvroOptional_timeAlways(e) ==
  (IF e.datacontenttype # "" THEN datacontenttype :> VString(e.datacontenttype)
                             ELSE EmptyMap)
    @@ (IF e.dataschema # "" THEN dataschema :> VString(e.dataschema)
                             ELSE EmptyMap)
    @@ (IF e.subject # "" THEN subject :> VString(e.subject) ELSE EmptyMap)
    @@ (time :> VString(FormatRFC3339Nano(e.time)))

toAvroOptional(e) ==
  (IF e.datacontenttype # "" THEN datacontenttype :> VString(e.datacontenttype)
                             ELSE EmptyMap)
    @@ (IF e.dataschema # "" THEN dataschema :> VString(e.dataschema)
                             ELSE EmptyMap)
    @@ (IF e.subject # "" THEN subject :> VString(e.subject) ELSE EmptyMap)
    @@ (IF e.time # zeroTime
          THEN time :> VString(FormatRFC3339Nano(e.time)) ELSE EmptyMap)

\* The payload stored without asking whether there is one: the slot then
\* holds a nil byte slice, which is not a nil value.
toAvroData_noNilCheck(e) == IF ~IsNilSlice(e.data) THEN e.data ELSE DNilBytes

toAvroData(e) == IF ~IsNilSlice(e.data) THEN e.data ELSE DNil

\* The result: ok with the record, or the nil record with the error.
ToAvro(e, first) ==
  LET base == toAvroOptional(e) @@ toAvroRequired(e)
      x == toAvroExtensions(base, e.extensions,
                            RangeOrder(DOMAIN e.extensions, first))
  IN  IF x.err # NoErr
        THEN [ok |-> FALSE, record |-> NilRecord, err |-> x.err]
        ELSE [ok |-> TRUE, record |-> Record(x.attribute, toAvroData(e)),
              err |-> NoErr]

(***************************************************************************)
(* extensionValueFrom, avro.go:253-274                                     *)
(***************************************************************************)
\* int32(v) for a Go int or int64 v: the low 32 bits, as a signed number;
\* the bits above them are dropped.
ToInt32(v) == VInt32(v.i)

\* extensionValueFrom without its case for byte slices.
extensionValueFrom_noBytes(v) ==
  CASE v.t = "nil" -> [val |-> VNil, err |-> NoErr]
    [] v.t = "bool" -> [val |-> v, err |-> NoErr]
    [] v.t = "int" -> [val |-> ToInt32(v), err |-> NoErr]
    [] v.t = "int32" -> [val |-> v, err |-> NoErr]
    [] v.t = "int64" -> [val |-> ToInt32(v), err |-> NoErr]
    [] v.t = "string" -> [val |-> v, err |-> NoErr]
    [] OTHER ->
         [val |-> VNil, err |-> Err("", "", "unsupported attribute type", v.t)]

extensionValueFrom(v) ==
  CASE v.t = "nil" -> [val |-> VNil, err |-> NoErr]
    [] v.t = "bool" -> [val |-> v, err |-> NoErr]
    [] v.t = "int" -> [val |-> ToInt32(v), err |-> NoErr]
    [] v.t = "int32" -> [val |-> v, err |-> NoErr]
    [] v.t = "int64" -> [val |-> ToInt32(v), err |-> NoErr]
    [] v.t = "string" -> [val |-> v, err |-> NoErr]
    [] v.t = "[]byte" -> [val |-> v, err |-> NoErr]
    [] OTHER ->
         [val |-> VNil, err |-> Err("", "", "unsupported attribute type", v.t)]

(***************************************************************************)
(* encoding/json's Marshal of a map[string]any, as FromAvro uses it on a   *)
(* payload slot: the keys in sorted order, a string quoted, a byte slice   *)
(* as a quoted base64 text (null for a nil slice), a boolean as true; a    *)
(* float64 that is NaN is an error.  The result is the text's bytes.       *)
(***************************************************************************)
\* The ASCII code of the base64 digit of a 6-bit number.
B64Digit(n) ==
  IF n < 26 THEN 65 + n
  ELSE IF n < 52 THEN 97 + (n - 26)
  ELSE IF n < 62 THEN 48 + (n - 52)
  ELSE IF n = 62 THEN 43 ELSE 47

RECURSIVE Base64(_)
Base64(b) ==
  IF Len(b) = 0 THEN << >>
  ELSE IF Len(b) = 1
    THEN <<B64Digit(b[1] \div 4), B64Digit((b[1] % 4) * 16), 61, 61>>
  ELSE IF Len(b) = 2
    THEN <<B64Digit(b[1] \div 4),
           B64Digit((b[1] % 4) * 16 + b[2] \div 16),
           B64Digit((b[2] % 16) * 4), 61>>
  ELSE <<B64Digit(b[1] \div 4),
         B64Digit((b[1] % 4) * 16 + b[2] \div 16),
         B64Digit((b[2] % 16) * 4 + b[3] \div 64),
         B64Digit(b[3] % 64)>> \o Base64(SubSeq(b, 4, Len(b)))

\* The keys a payload map of the model may hold, sorted, with their bytes.
MapKeys == <<"bytes", "k", "string">>

KeyBytes(k) ==
  CASE k = "bytes" -> <<98, 121, 116, 101, 115>>
    [] k = "k" -> <<107>>
    [] k = "string" -> <<115, 116, 114, 105, 110, 103>>

Quoted(b) == <<34>> \o b \o <<34>>

jsonValue(d) ==
  CASE d.k = "[]byte" ->
         [ok |-> TRUE,
          b |-> IF d.nilslice THEN <<110, 117, 108, 108>>
                              ELSE Quoted(Base64(d.b))]
    [] d.k = "string" -> [ok |-> TRUE, b |-> Quoted(d.b)]
    [] d.k = "bool" -> [ok |-> TRUE, b |-> <<116, 114, 117, 101>>]
    [] d.k = "nil" -> [ok |-> TRUE, b |-> <<110, 117, 108, 108>>]
    [] OTHER -> [ok |-> FALSE, b |-> << >>]

RECURSIVE jsonMembers(_, _)
jsonMembers(m, keys) ==
  IF keys = << >> THEN << >>
  ELSE Quoted(KeyBytes(Head(keys))) \o <<58>> \o jsonValue(m[Head(keys)]).b
         \o (IF Len(keys) > 1 THEN <<44>> ELSE << >>)
         \o jsonMembers(m, Tail(keys))

jsonMarshal(m) ==
  IF \E k \in DOMAIN m : ~jsonValue(m[k]).ok
    THEN [ok |-> FALSE, b |-> << >>]
    ELSE [ok |-> TRUE,
          b |-> <<123>>
                \o jsonMembers(m, SelectSeq(MapKeys, LAMBDA k : k \in DOMAIN m))
                \o <<125>>]

(***************************************************************************)
(* FromAvro, avro.go:157-250                                               *)
(***************************************************************************)
\* Lines 161-180: a required attribute is taken when it is there and holds
\* a string.
fromAvroRequired(e, attribute) ==
  LET has(n) == n \in DOMAIN attribute /\ attribute[n].t = "string"
      e1 == IF has(specversion)
              THEN SetSpecVersion(e, attribute[specversion].s) ELSE e
      e2 == IF has(id) THEN [e1 EXCEPT !.id = attribute[id].s] ELSE e1
      e3 == IF has(source)
              THEN [e2 EXCEPT !.source = attribute[source].s] ELSE e2
  IN  IF has(typ) THEN [e3 EXCEPT !.type = attribute[typ].s] ELSE e3

\* Lines 204-211 with the second attempt dropped and its failure taken for
\* the zero instant.
parseTime_ignoreError(sv) ==
  LET t1 == TimeParse(sv)
  IN  [ok |-> TRUE, t |-> IF t1.ok THEN t1.t ELSE zeroTime]

\* Lines 204-211: the text is parsed under time.RFC3339Nano and, when that
\* fails, under time.RFC3339; the second failure is the failure.
parseTime(sv) ==
  LET t1 == TimeParse(sv)    \* time.RFC3339Nano
      t2 == TimeParse(sv)    \* time.RFC3339
  IN  IF t1.ok THEN t1 ELSE t2

\* Lines 183-222: the optional and the extension attributes, in the order
\* given; the first failure ends the walk.
RECURSIVE fromAvroAttributes(_, _, _)
fromAvroAttributes(e, attribute, order) ==
  IF order = << >> THEN [e |-> e, err |-> NoErr]
  ELSE
    LET name == Head(order)
        value == attribute[name]
        rest == Tail(order)
        isString == value.t = "string"
    IN
    IF name \in {specversion, id, source, typ}
      THEN fromAvroAttributes(e, attribute, rest)
    ELSE IF name = datacontenttype
      THEN fromAvroAttributes(
             IF isString THEN [e EXCEPT !.datacontenttype = value.s] ELSE e,
             attribute, rest)
    ELSE IF name = dataschema
      THEN fromAvroAttributes(
             IF isString THEN [e EXCEPT !.dataschema = value.s] ELSE e,
             attribute, rest)
    ELSE IF name = subject
      THEN fromAvroAttributes(
             IF isString THEN [e EXCEPT !.subject = value.s] ELSE e,
             attribute, rest)
    ELSE IF name = time
      THEN IF isString
             THEN LET p == parseTime(value.s)
                  IN  IF ~p.ok
                        THEN [e |-> New,
                              err |-> Err("failed to parse time attribute",
                                          time, "parsing time", "")]
                        ELSE fromAvroAttributes(SetTime(e, p.t),
                                                attribute, rest)
             ELSE fromAvroAttributes(e, attribute, rest)
    ELSE LET x == extensionValueFrom(value)
         IN  IF x.err # NoErr
               THEN [e |-> New,
                     err |-> Err("failed to convert extension", name,
                                 x.err.cause, x.err.type)]
               ELSE fromAvroAttributes(SetExtension(e, name, x.val),
                                       attribute, rest)

\* The payload with the wrapped string branch looked for before the
\* wrapped bytes branch.
fromAvroData_stringFirst(e, d) ==
  IF d.k = "nil" THEN [e |-> e, err |-> NoErr]
  ELSE IF d.k = "[]byte"
    THEN [e |-> [e EXCEPT !.data = IF d.nilslice THEN DNil ELSE DBytes(d.b)],
          err |-> NoErr]
  ELSE IF d.k = "string"
    THEN [e |-> [e EXCEPT !.data = DBytes(d.b)], err |-> NoErr]
  ELSE IF d.k = "map"
    THEN IF "string" \in DOMAIN d.m /\ d.m["string"].k = "string"
           THEN [e |-> [e EXCEPT !.data = DBytes(d.m["string"].b)],
                 err |-> NoErr]
         ELSE IF "bytes" \in DOMAIN d.m /\ d.m["bytes"].k = "[]byte"
           THEN [e |-> [e EXCEPT !.data = IF d.m["bytes"].nilslice
                                            THEN DNil
                                            ELSE DBytes(d.m["bytes"].b)],
                 err |-> NoErr]
         ELSE LET j == jsonMarshal(d.m)
              IN  IF ~j.ok
                    THEN [e |-> New,
                          err |-> Err("failed to marshal map data", "",
                                      "json: unsupported value", "")]
                    ELSE [e |-> [e EXCEPT !.data = DBytes(j.b)],
                          err |-> NoErr]
  ELSE [e |-> e, err |-> NoErr]

\* Lines 226-247: the payload, by the dynamic type of the slot.
fromAvroData(e, d) ==
  IF d.k = "nil" THEN [e |-> e, err |-> NoErr]
  ELSE IF d.k = "[]byte"
    THEN [e |-> [e EXCEPT !.data = IF d.nilslice THEN DNil ELSE DBytes(d.b)],
          err |-> NoErr]
  ELSE IF d.k = "string"
    THEN [e |-> [e EXCEPT !.data = DBytes(d.b)], err |-> NoErr]
  ELSE IF d.k = "map"
    THEN IF "bytes" \in DOMAIN d.m /\ d.m["bytes"].k = "[]byte"
           THEN [e |-> [e EXCEPT !.data = IF d.m["bytes"].nilslice
                                            THEN DNil
                                            ELSE DBytes(d.m["bytes"].b)],
                 err |-> NoErr]
         ELSE IF "string" \in DOMAIN d.m /\ d.m["string"].k = "string"
           THEN [e |-> [e EXCEPT !.data = DBytes(d.m["string"].b)],
                 err |-> NoErr]
         ELSE LET j == jsonMarshal(d.m)
              IN  IF ~j.ok
                    THEN [e |-> New,
                          err |-> Err("failed to marshal map data", "",
                                      "json: unsupported value", "")]
                    ELSE [e |-> [e EXCEPT !.data = DBytes(j.b)],
                          err |-> NoErr]
  ELSE [e |-> e, err |-> NoErr]

\* The result: ok with the event, or no event with the error.
FromAvro(record, first) ==
  LET a == fromAvroAttributes(fromAvroRequired(New, record.Attribute),
                              record.Attribute,
                              RangeOrder(DOMAIN record.Attribute, first))
      d == fromAvroData(a.e, record.Data)
  IN  IF a.err # NoErr THEN [ok |-> FALSE, e |-> New, err |-> a.err]
      ELSE IF d.err # NoErr THEN [ok |-> FALSE, e |-> New, err |-> d.err]
      ELSE [ok |-> TRUE, e |-> d.e, err |-> NoErr]

(***************************************************************************)
(* The schema engine on the fixed schema schema.CloudEvent: the bytes of a *)
(* record are its attribute map, each value under the branch of the union  *)
(* [null, boolean, int, string, bytes] that its Go type selects, and the   *)
(* payload under a branch of the payload union.                            *)
(***************************************************************************)
Bytes(isNil, valid, attribute, data) ==
  [isNil |-> isNil, valid |-> valid, attribute |-> attribute, data |-> data]

NilBytes == Bytes(TRUE, FALSE, EmptyMap, DNil)

\* The branch a Go value is written under, "" when the union has none.
avroBranch(v) ==
  CASE v.t = "nil" -> "null"
    [] v.t = "bool" -> "boolean"
    [] v.t \in {"int", "int32"} -> "int"
    [] v.t = "string" -> "string"
    [] v.t = "[]byte" -> "bytes"
    [] OTHER -> ""

\* avro.Marshal(schema.CloudEvent, record)
avroMarshal(record) ==
  IF \/ \E n \in DOMAIN record.Attribute : avroBranch(record.Attribute[n]) = ""
     \/ record.Data.k \notin {"nil", "[]byte"}
    THEN [bytes |-> NilBytes,
          err |-> Err("avro: Marshal", "", "unsupported type", "")]
    ELSE [bytes |->
            Bytes(FALSE, TRUE,
                  [n \in DOMAIN record.Attribute |->
                     [record.Attribute[n] EXCEPT
                        !.t = avroBranch(record.Attribute[n])]],
                  IF record.Data.k = "nil" THEN DNil
                                           ELSE DBytes(record.Data.b)),
          err |-> NoErr]

\* The Go value a branch is read into when the target is of type any.
goType(branch) ==
  CASE branch = "null" -> "nil"
    [] branch = "boolean" -> "bool"
    [] branch = "int" -> "int"
    [] branch = "string" -> "string"
    [] branch = "bytes" -> "[]byte"

\* avro.Unmarshal(schema.CloudEvent, b, record).  A payload read from the
\* bytes branch arrives either as the byte slice itself or wrapped in a
\* map under the branch's name (wrapped), and a payload of no bytes either
\* as an empty slice or as a nil slice (nilEmpty): FromAvro provides for
\* both, and the engine decides.
avroUnmarshal(b, wrapped, nilEmpty) ==
  IF ~b.valid
    THEN [record |-> NilRecord,
          err |-> Err("avro: Unmarshal", "", "unexpected EOF", "")]
    ELSE LET read == IF b.data.k = "[]byte" /\ b.data.b = << >> /\ nilEmpty
                       THEN DNilBytes ELSE b.data
             d == IF read.k = "[]byte" /\ wrapped
                    THEN DMap("bytes" :> read) ELSE read
         IN  [record |->
                Record([n \in DOMAIN b.attribute |->
                          [b.attribute[n] EXCEPT
                             !.t = goType(b.attribute[n].t)]],
                       d),
              err |-> NoErr]

(***************************************************************************)
(* The events, records and bytes the operations are applied to.            *)
(***************************************************************************)
ByteValues == {0, 255}

ByteSeqs ==
  UNION { [1..n -> ByteValues] : n \in 0..MaxDataLen }

EventTimes ==
  {zeroTime}
    \cup { [sec |-> MaxSec, nsec |-> 0, off |-> o] : o \in Offsets }
    \cup { [sec |-> 0, nsec |-> 1, off |-> 0] }

\* One value of every canonical attribute type, and one of a type that is
\* none of them.
SupportedVals ==
  {VBool(TRUE), VInt32(-2), VString("v"), VBytes(<<1>>),
   VURI("https", "test-uri.com"), VURIRef("", "test-uriref.com"),
   VTimestamp([sec |-> MaxSec, nsec |-> 1, off |-> 0])}

UnsupportedVals == {VFloat64(1)}

\* Extensions: names that are no attribute of the context, as
\* Event.SetExtension admits them.
ExtensionMaps ==
  { m \in UNION { [D -> SupportedVals \cup UnsupportedVals]
                    : D \in SUBSET ExtNames } :
      "y" \in DOMAIN m => m["y"] \in {VString("v"), VFloat64(1)} }

Events ==
  { Event(sv, "a", "b", "c", dct, ds, sub, tm, ext, data) :
      sv \in {"1.0", "0.3"}, dct \in {"", "application/json"},
      ds \in {"", "d"}, sub \in {"", "j"}, tm \in EventTimes,
      ext \in ExtensionMaps,
      data \in {DNil} \cup { DBytes(b) : b \in ByteSeqs } }

\* Payload maps: what each key may hold.
PayloadMaps ==
  { m \in UNION { [D -> {DBytes(<<1>>), DNilBytes, DString(<<97>>),
                         DOther("bool"), DOther("float64 NaN")}]
                    : D \in SUBSET {"bytes", "k", "string"} } :
      /\ "k" \in DOMAIN m => m["k"].k \in {"bool", "float64 NaN"}
      /\ "string" \in DOMAIN m => ~m["string"].nilslice }

PayloadSlots ==
  {DNil, DNilBytes, DString(<< >>), DString(<<97>>), DOther("bool"),
   DOther("[]interface {}")}
    \cup { DBytes(b) : b \in ByteSeqs }
    \cup { DMap(m) : m \in PayloadMaps }

RequiredAttributes ==
  (specversion :> VString("1.0")) @@ (id :> VString("a"))
    @@ (source :> VString("b")) @@ (typ :> VString("c"))

\* Attribute maps of records that did not come from ToAvro.
AttributeMaps ==
  { RequiredAttributes,
    (id :> VInt(7)) @@ RequiredAttributes,
    (time :> VString("T01.000000001Z")) @@ (subject :> VString("j"))
      @@ RequiredAttributes,
    (time :> VString("T61+00:01")) @@ RequiredAttributes,
    (time :> VString("")) @@ RequiredAttributes,
    (time :> VString("yesterday")) @@ RequiredAttributes,
    (time :> VString("yesterday")) @@ ("x" :> VFloat64(1))
      @@ RequiredAttributes,
    ("x" :> VInt64(1, 1)) @@ ("y" :> VNil) @@ RequiredAttributes,
    ("x" :> VFloat64(1)) @@ ("y" :> VBool(TRUE)) @@ RequiredAttributes }

Records ==
  { Record(a, d) : a \in AttributeMaps, d \in PayloadSlots }

\* Events a caller may pass as the target of Unmarshal.
Targets ==
  {New, Event("1.0", "old", "b", "c", "", "", "j", zeroTime,
              "x" :> VString("v"), DBytes(<<0>>))}

\* Bytes that did not come from Marshal: no record at all.
CorruptBytes == Bytes(FALSE, FALSE, EmptyMap, DNil)

\* Bytes a caller may pass to Unmarshal: the corrupt ones, and the bytes of
\* every record above that the fixed schema can hold, written by any
\* producer.
GivenBytes ==
  {CorruptBytes}
    \cup { avroMarshal(r).bytes :
             r \in { q \in Records :
                       /\ q.Data \in {DNil, DBytes(<<255>>)}
                       /\ avroMarshal(q).err = NoErr } }

(***************************************************************************)
(* State.                                                                  *)
(*   pc      where the envelope scenario stands: "event", then "toavro"    *)
(*           and "fromavro", or "marshaled" and "unmarshaled"; "record",   *)
(*           then "converted"; "bytes", then "decoded"                     *)
(*   ev      the event given to ToAvro or Marshal                          *)
(*   rec     the record returned by ToAvro or given to FromAvro            *)
(*   bytes   the bytes returned by Marshal or given to Unmarshal           *)
(*   ret     the event returned by FromAvro                                *)
(*   out     the target of Unmarshal                                       *)
(*   err     the error of the last call                                    *)
(*   defaultRegistry   the payload codec's schema registry, "nil" for none *)
(*   setCalls          the arguments of the calls of SetSchemaRegistry so  *)
(*                     far, oldest first                                   *)
(*   call              the last call of the payload codec: what it was     *)
(*                     given, what it returned, the registry it asked and  *)
(*                     the schema it handed to the schema engine           *)
(***************************************************************************)
VARIABLES pc, ev, rec, bytes, ret, out, err, defaultRegistry, setCalls, call

envVars == <<pc, ev, rec, bytes, ret, out, err>>

dataVars == <<defaultRegistry, setCalls, call>>

NoRecord == [isNil |-> TRUE, v |-> NilRecord]
NoEvent == [isNil |-> TRUE, e |-> New]

InitEnvelope ==
  /\ err = NoErr
  /\ ret = NoEvent
  /\ \/ /\ pc = "event"
        /\ ev \in Events
        /\ rec = NoRecord
        /\ bytes = NilBytes
        /\ out = New
     \/ /\ pc = "record"
        /\ ev = New
        /\ rec \in { [isNil |-> FALSE, v |-> r] : r \in Records }
        /\ bytes = NilBytes
        /\ out = New
     \/ /\ pc = "bytes"
        /\ ev = New
        /\ rec = NoRecord
        /\ bytes \in GivenBytes
        /\ out \in Targets

\* record, err := ToAvro(&ev)
ToAvroCall ==
  /\ pc = "event"
  /\ \E first \in Firsts(DOMAIN ev.extensions) :
       LET r == ToAvro(ev, first)
       IN  /\ rec' = [isNil |-> ~r.ok, v |-> r.record]
           /\ err' = r.err
  /\ pc' = "toavro"
  /\ UNCHANGED <<ev, bytes, ret, out, dataVars>>

\* e, err := FromAvro(record), on a record given or on ToAvro's.
FromAvroCall ==
  /\ pc \in {"record", "toavro"}
  /\ ~rec.isNil
  /\ \E first \in Firsts(DOMAIN rec.v.Attribute) :
       LET r == FromAvro(rec.v, first)
       IN  /\ ret' = [isNil |-> ~r.ok, e |-> r.e]
           /\ err' = r.err
  /\ pc' = IF pc = "record" THEN "converted" ELSE "fromavro"
  /\ UNCHANGED <<ev, rec, bytes, out, dataVars>>

\* avroFmt.Marshal, avro.go:60-66
Marshal(e, first) ==
  LET r == ToAvro(e, first)
  IN  IF r.err # NoErr THEN [bytes |-> NilBytes, err |-> r.err]
                       ELSE avroMarshal(r.record)

MarshalCall ==
  /\ pc = "event"
  /\ \E first \in Firsts(DOMAIN ev.extensions) :
       LET r == Marshal(ev, first)
       IN  /\ bytes' = r.bytes
           /\ err' = r.err
  /\ pc' = "marshaled"
  /\ UNCHANGED <<ev, rec, ret, out, dataVars>>

\* Unmarshal converting into the target itself: a failed conversion leaves
\* a fresh event in it.
Unmarshal_intoTarget(b, e, wrapped, nilEmpty, first) ==
  LET u == avroUnmarshal(b, wrapped, nilEmpty)
      r == FromAvro(u.record, first)
  IN  IF u.err # NoErr THEN [e |-> e, err |-> u.err]
      ELSE [e |-> r.e, err |-> r.err]

\* avroFmt.Unmarshal, avro.go:68-79: the target after the call, and the
\* error.
Unmarshal(b, e, wrapped, nilEmpty, first) ==
  LET u == avroUnmarshal(b, wrapped, nilEmpty)
      r == FromAvro(u.record, first)
  IN  IF u.err # NoErr THEN [e |-> e, err |-> u.err]
      ELSE IF r.err # NoErr THEN [e |-> e, err |-> r.err]
      ELSE [e |-> r.e, err |-> NoErr]

UnmarshalCall ==
  /\ pc \in {"bytes", "marshaled"}
  /\ ~bytes.isNil
  /\ \E wrapped \in BOOLEAN,
        nilEmpty \in (IF bytes.data.b = << >> THEN BOOLEAN ELSE {FALSE}),
        first \in Firsts(DOMAIN bytes.attribute) :
       LET r == Unmarshal(bytes, out, wrapped, nilEmpty, first)
       IN  /\ out' = r.e
           /\ err' = r.err
  /\ pc' = IF pc = "bytes" THEN "decoded" ELSE "unmarshaled"
  /\ UNCHANGED <<ev, rec, bytes, ret, dataVars>>

NextEnvelope == ToAvroCall \/ FromAvroCall \/ MarshalCall \/ UnmarshalCall

\* No envelope scenario.
IdleEnvelope ==
  /\ pc = "idle" /\ ev = New /\ rec = NoRecord /\ bytes = NilBytes
  /\ ret = NoEvent /\ out = New /\ err = NoErr

(***************************************************************************)
(* The payload codec.                                                      *)
(*                                                                         *)
(* A payload value is a Go value of some dynamic type: a byte slice b (a   *)
(* nil slice when isNil), or a record or a pointer to a record whose       *)
(* string field is b.                                                      *)
(***************************************************************************)
Value(type, isNil, b) == [type |-> type, isNil |-> isNil, b |-> b]

NoValue == Value("", TRUE, << >>)

\* The schemas: "" is the nil avro.Schema.
sampleSchema == "sampleSchema"
testRecordSchema == "testRecordSchema"

\* The types whose method set holds AvroSchema() avro.Schema: the method
\* is declared on the pointer in each case (*Sample, *TestRecord,
\* *schemaProviderRecord).
ProviderTypes ==
  {"*main.Sample", "*avro_test.TestRecord", "*avro_test.schemaProviderRecord"}

AvroSchema(v) ==
  IF v.type = "*main.Sample" THEN sampleSchema ELSE testRecordSchema

\* The registries a caller may install.  TestSchemaRegistry knows
\* TestRecord and *TestRecord and answers nil, nil for any other type;
\* strictRegistry knows Sample and answers an error for any other type.
Registries == {"TestSchemaRegistry", "strictRegistry"}

GetSchema(r, v) ==
  IF r = "TestSchemaRegistry"
    THEN IF v.type \in {"*avro_test.TestRecord", "avro_test.TestRecord"}
           THEN [schema |-> testRecordSchema, err |-> NoErr]
           ELSE [schema |-> "", err |-> NoErr]
    ELSE IF v.type \in {"*main.Sample", "main.Sample"}
           THEN [schema |-> sampleSchema, err |-> NoErr]
           ELSE [schema |-> "", err |-> Err("GetSchema", "", "unknown type",
                                            v.type)]

\* getSchemaFor ending without an error when nothing yields a schema.
getSchemaFor_noError(v, registry) ==
  IF v.type \in ProviderTypes
    THEN [schema |-> AvroSchema(v), err |-> NoErr, asked |-> ""]
  ELSE IF registry # "nil"
    THEN [schema |-> GetSchema(registry, v).schema,
          err |-> GetSchema(registry, v).err, asked |-> registry]
  ELSE [schema |-> "", err |-> NoErr, asked |-> ""]

\* getSchemaFor: the schema, the error, and the registry that was asked
\* ("" when none was).  The second test asks whether a pointer to the
\* interface variable v is a SchemaProvider: a pointer to an interface has
\* no methods, so it never is.
getSchemaFor(v, registry) ==
  IF v.type \in ProviderTypes
    THEN [schema |-> AvroSchema(v), err |-> NoErr, asked |-> ""]
  ELSE IF FALSE
    THEN [schema |-> AvroSchema(v), err |-> NoErr, asked |-> ""]
  ELSE IF registry # "nil"
    THEN [schema |-> GetSchema(registry, v).schema,
          err |-> GetSchema(registry, v).err, asked |-> registry]
  ELSE [schema |-> "",
        err |-> Err("no schema available for type", "",
                    "implement SchemaProvider interface or set a SchemaRegistry",
                    v.type),
        asked |-> ""]

\* The schema engine on a payload value: a record is written as its string
\* field, the length (zigzag) before the bytes.  A nil schema is a nil
\* interface whose method the engine calls: the call panics.  A schema of
\* another record type, or a value that is no pointer to decode into, is
\* an error.
SchemaFits(schema, v) ==
  \/ schema = sampleSchema /\ v.type \in {"*main.Sample", "main.Sample"}
  \/ schema = testRecordSchema
       /\ v.type \in {"*avro_test.TestRecord", "avro_test.TestRecord",
                      "*avro_test.schemaProviderRecord"}

avroMarshalValue(schema, v) ==
  IF schema = ""
    THEN [b |-> << >>, isNil |-> TRUE,
          err |-> Err("panic", "", "nil pointer dereference", "")]
  ELSE IF ~SchemaFits(schema, v)
    THEN [b |-> << >>, isNil |-> TRUE,
          err |-> Err("avro: Marshal", "", "missing field", v.type)]
  ELSE [b |-> <<2 * Len(v.b)>> \o v.b, isNil |-> FALSE, err |-> NoErr]

avroUnmarshalValue(schema, in, v) ==
  IF schema = ""
    THEN [v |-> v, err |-> Err("panic", "", "nil pointer dereference", "")]
  ELSE IF ~SchemaFits(schema, v)
    THEN [v |-> v, err |-> Err("avro: Unmarshal", "", "missing field", v.type)]
  ELSE IF Len(in) = 0 \/ in[1] % 2 # 0 \/ in[1] \div 2 > Len(in) - 1
    THEN [v |-> v, err |-> Err("avro: Unmarshal", "", "unexpected EOF", "")]
  ELSE [v |-> [v EXCEPT !.b = SubSeq(in, 2, 1 + in[1] \div 2)],
        err |-> NoErr]

Call(op, in, data, target, result, isNil, e, asked, engine) ==
  [op |-> op, in |-> in, data |-> data, target |-> target,
   result |-> result, isNil |-> isNil, err |-> e, asked |-> asked,
   engine |-> engine]

NoCall == Call("", NoValue, << >>, NoValue, << >>, TRUE, NoErr, "", "none")

\* The schema the engine was handed, as the call records it.
Handed(schema) == IF schema = "" THEN "nil schema" ELSE schema

\* SetSchemaRegistry installing a registry only where none is installed.
SetSchemaRegistry_once(r) ==
  /\ Len(setCalls) < MaxSetCalls
  /\ defaultRegistry' = IF defaultRegistry = "nil" THEN r ELSE defaultRegistry
  /\ setCalls' = Append(setCalls, r)
  /\ call' = Call("SetSchemaRegistry", NoValue, << >>, NoValue, << >>, TRUE,
                  NoErr, "", "none")
  /\ UNCHANGED envVars

\* SetSchemaRegistry(r).  The history of the calls is kept up to
\* MaxSetCalls of them.
SetSchemaRegistry(r) ==
  /\ Len(setCalls) < MaxSetCalls
  /\ defaultRegistry' = r
  /\ setCalls' = Append(setCalls, r)
  /\ call' = Call("SetSchemaRegistry", NoValue, << >>, NoValue, << >>, TRUE,
                  NoErr, "", "none")
  /\ UNCHANGED envVars

\* EncodeData resolving a schema for a byte slice as for any other value.
EncodeData_noPassThrough(in, registry) ==
  LET s == getSchemaFor(in, registry)
      m == avroMarshalValue(s.schema, in)
  IN  IF s.err # NoErr
        THEN Call("EncodeData", in, << >>, NoValue, << >>, TRUE,
                  Err("failed to get schema for encoding", "",
                      s.err.op \o ": " \o s.err.cause, s.err.type),
                  s.asked, "none")
        ELSE Call("EncodeData", in, << >>, NoValue, m.b, m.isNil, m.err,
                  s.asked, Handed(s.schema))

\* EncodeData(ctx, in): the bytes returned (isNil: none), the error, the
\* registry asked and the schema handed to the engine ("none": the engine
\* was not called).
EncodeData(in, registry) ==
  IF in.type = "[]byte"
    THEN Call("EncodeData", in, << >>, NoValue, in.b, in.isNil, NoErr, "",
              "none")
  ELSE LET s == getSchemaFor(in, registry)
           m == avroMarshalValue(s.schema, in)
       IN  IF s.err # NoErr
             THEN Call("EncodeData", in, << >>, NoValue, << >>, TRUE,
                       Err("failed to get schema for encoding", "",
                           s.err.op \o ": " \o s.err.cause, s.err.type),
                       s.asked, "none")
             ELSE Call("EncodeData", in, << >>, NoValue, m.b, m.isNil, m.err,
                       s.asked, Handed(s.schema))

\* DecodeData(ctx, in, out): the target after the call, the error, the
\* registry asked and the schema handed to the engine.
DecodeData(in, target, registry) ==
  LET s == getSchemaFor(target, registry)
      u == avroUnmarshalValue(s.schema, in, target)
  IN  IF s.err # NoErr
        THEN Call("DecodeData", target, in, target, << >>, TRUE,
                  Err("failed to get schema for decoding", "",
                      s.err.op \o ": " \o s.err.cause, s.err.type),
                  s.asked, "none")
      ELSE IF u.err # NoErr
        THEN Call("DecodeData", target, in, u.v, << >>, TRUE,
                  Err("failed to unmarshal Avro data", "", u.err.op, ""),
                  s.asked, Handed(s.schema))
      ELSE Call("DecodeData", target, in, u.v, << >>, TRUE, NoErr, s.asked,
                Handed(s.schema))

\* The values the payload codec is given.
RecordTypes ==
  {"*main.Sample", "main.Sample", "*avro_test.TestRecord",
   "avro_test.TestRecord", "*avro_test.schemaProviderRecord",
   "*avro_test.NoSchemaRecord"}

Values ==
  { Value("[]byte", TRUE, << >>) }
    \cup { Value("[]byte", FALSE, b) : b \in ByteSeqs }
    \cup { Value(t, FALSE, <<255>>) : t \in RecordTypes }

DecodeTargets == { Value(t, FALSE, << >>) : t \in RecordTypes }

EncodeDataCall ==
  /\ \E in \in Values : call' = EncodeData(in, defaultRegistry)
  /\ UNCHANGED <<defaultRegistry, setCalls, envVars>>

DecodeDataCall ==
  /\ \E in \in ByteSeqs \cup {<<2, 255>>}, target \in DecodeTargets :
       call' = DecodeData(in, target, defaultRegistry)
  /\ UNCHANGED <<defaultRegistry, setCalls, envVars>>

SetSchemaRegistryCall ==
  \E r \in Registries \cup {"nil"} : SetSchemaRegistry(r)

InitData == defaultRegistry = "nil" /\ setCalls = << >> /\ call = NoCall

NextData == SetSchemaRegistryCall \/ EncodeDataCall \/ DecodeDataCall

vars == <<envVars, dataVars>>

\* The envelope codec.
Init == InitEnvelope /\ InitData

Next == NextEnvelope

Spec == Init /\ [][Next]_vars

\* The payload codec.
InitCodec == IdleEnvelope /\ InitData

NextCodec == NextData

DataSpec == InitCodec /\ [][NextCodec]_vars

(***************************************************************************)
(* Properties of the envelope codec.                                       *)
(***************************************************************************)
\* What an extension value is after one trip through the record: the
\* boolean, the integer, the string and the bytes as they were, a URI, a
\* URI-reference and a timestamp as their text.
Coerced(v) ==
  CASE v.t \in {"bool", "int32", "string", "[]byte"} -> v
    [] v.t \in {"types.URI", "types.URIRef"} -> VString(URLString(v))
    [] v.t = "types.Timestamp" -> VString(FormatRFC3339Nano(v.tm))

RequiredSet(e) ==
  e.specversion # "" /\ e.id # "" /\ e.source # "" /\ e.type # ""

AllSupported(e) ==
  \A n \in DOMAIN e.extensions : e.extensions[n].t \in CanonicalTypes

\* d reproduces e: the required fields, the optional fields that e has set
\* and every extension after its coercion.
Reproduces(e, d) ==
  /\ d.specversion = e.specversion
  /\ d.id = e.id
  /\ d.source = e.source
  /\ d.type = e.type
  /\ e.datacontenttype # "" => d.datacontenttype = e.datacontenttype
  /\ e.dataschema # "" => d.dataschema = e.dataschema
  /\ e.subject # "" => d.subject = e.subject
  /\ e.time # zeroTime => (d.time # zeroTime /\ TimeEqual(d.time, e.time))
  /\ DOMAIN d.extensions = DOMAIN e.extensions
  /\ \A n \in DOMAIN e.extensions :
       d.extensions[n] = Coerced(e.extensions[n])

\* The event decoded from what was encoded from ev reproduces ev, by
\* Unmarshal(Marshal(ev)) and by FromAvro(ToAvro(ev)).
RoundTrips ==
  /\ pc = "unmarshaled" => (err = NoErr /\ Reproduces(ev, out))
  /\ pc = "fromavro" => (err = NoErr /\ ~ret.isNil /\ Reproduces(ev, ret.e))

\* A time that RFC 3339 writes exactly: the offset of its zone is a whole
\* number of minutes.
WholeMinuteZone(t) == t.off % 60 = 0

(* C1, as stated: for every event with the four required fields set and    *)
(* extensions of the supported types only, the decoded event reproduces    *)
(* the required fields, the set optional fields (the time as an instant)   *)
(* and every extension after one coercion.                                 *)
C1_RoundTripEveryEvent ==
  (pc \in {"unmarshaled", "fromavro"} /\ RequiredSet(ev) /\ AllSupported(ev))
    => RoundTrips

(* C1, amended: the same round trip for every such event whose time, when  *)
(* set, lies in a zone whose offset is a whole number of minutes.          *)
C1_RoundTrip ==
  (/\ pc \in {"unmarshaled", "fromavro"}
   /\ RequiredSet(ev) /\ AllSupported(ev)
   /\ WholeMinuteZone(ev.time))
    => RoundTrips

C1_Witness ==
  /\ pc = "unmarshaled"
  /\ err = NoErr
  /\ ev.time.off = 60
  /\ ev.specversion = "0.3"
  /\ ev.datacontenttype # "" /\ ev.dataschema # "" /\ ev.subject # ""
  /\ DOMAIN ev.extensions = {"x", "y"}
  /\ ev.extensions["x"].t = "types.Timestamp"
  /\ out.extensions["x"] = VString("T01.000000001Z")
  /\ out.time = [sec |-> MaxSec, nsec |-> 0, off |-> 60]

(* C2: the record ToAvro builds holds the key time exactly when the        *)
(* event's time is not the zero time, and each of datacontenttype,         *)
(* dataschema and subject exactly when the event's field is not empty.     *)
C2_Omission ==
  (pc = "toavro" /\ ~rec.isNil) =>
    /\ time \in DOMAIN rec.v.Attribute <=> ev.time # zeroTime
    /\ datacontenttype \in DOMAIN rec.v.Attribute <=> ev.datacontenttype # ""
    /\ dataschema \in DOMAIN rec.v.Attribute <=> ev.dataschema # ""
    /\ subject \in DOMAIN rec.v.Attribute <=> ev.subject # ""

C2_Witness ==
  /\ pc = "toavro" /\ ~rec.isNil
  /\ ev.time = zeroTime /\ ev.subject = "" /\ ev.datacontenttype = ""
  /\ ev.dataschema # ""
  /\ DOMAIN ev.extensions = {"x", "y"}
  /\ DOMAIN rec.v.Attribute = RequiredNames \cup {dataschema, "x", "y"}

\* The extensions of e whose value is of no supported type.
Offending(e) ==
  { n \in DOMAIN e.extensions : e.extensions[n].t \notin CanonicalTypes }

C4_PayloadRoundTrip ==
  (pc = "unmarshaled" /\ err = NoErr) =>
    /\ IsNilSlice(ev.data) => IsNilSlice(out.data)
    /\ ~IsNilSlice(ev.data) => out.data.b = ev.data.b

C4_Witness ==
  /\ pc = "unmarshaled" /\ err = NoErr
  /\ ev.data = DBytes(<<255>>)
  /\ out.data = DBytes(<<255>>)
  /\ ev.extensions # EmptyMap

C4_WitnessNoPayload ==
  pc = "unmarshaled" /\ err = NoErr /\ ev.data = DNil /\ out.data = DNil

SelectedPayload(d) ==
  CASE d.k = "[]byte" -> d
    [] d.k = "string" -> DBytes(d.b)
    [] d.k = "map" ->
         IF "bytes" \in DOMAIN d.m /\ d.m["bytes"].k = "[]byte"
           THEN d.m["bytes"]
         ELSE IF "string" \in DOMAIN d.m /\ d.m["string"].k = "string"
           THEN DBytes(d.m["string"].b)
         ELSE DBytes(jsonMarshal(d.m).b)
    [] OTHER -> DNil

\* The same payload: both unset, or the same bytes.
SamePayload(p, q) ==
  /\ IsNilSlice(p) <=> IsNilSlice(q)
  /\ ~IsNilSlice(p) => p.b = q.b

(* C10: the event FromAvro returns has the payload the shape of the        *)
(* record's slot selects: bytes as they are, a string's bytes, for a map   *)
(* its wrapped bytes, else its wrapped string, else the JSON text of the   *)
(* map; an unset slot or another shape leaves the payload unset, and is    *)
(* no cause of an error.                                                   *)
C10_PayloadSelection ==
  pc = "converted" =>
    /\ ~ret.isNil => SamePayload(ret.e.data, SelectedPayload(rec.v.Data))
    /\ rec.v.Data.k \notin {"[]byte", "string", "map"} =>
         /\ err.op # "failed to marshal map data"
         /\ ~ret.isNil => IsNilSlice(ret.e.data)

C10_Witness ==
  /\ pc = "converted" /\ ~ret.isNil
  /\ rec.v.Data.k = "map"
  /\ DOMAIN rec.v.Data.m = {"bytes", "k", "string"}
  /\ rec.v.Data.m["bytes"].k = "bool"
  /\ rec.v.Data.m["string"].k = "[]byte"
  /\ ret.e.data.b = jsonMarshal(rec.v.Data.m).b

C10_WitnessWrappedBytes ==
  /\ pc = "converted" /\ ~ret.isNil
  /\ rec.v.Data.k = "map"
  /\ DOMAIN rec.v.Data.m = {"bytes", "string"}
  /\ rec.v.Data.m["string"].k = "string"
  /\ ret.e.data = DBytes(<<1>>)

\* FromAvro has run on a record: one given to it, or the one Unmarshal
\* read from the bytes.
FromAvroRan == pc = "converted" \/ (pc = "decoded" /\ bytes.valid)

DecodedAttributes ==
  IF pc = "converted" THEN rec.v.Attribute
  ELSE avroUnmarshal(bytes, FALSE, FALSE).record.Attribute

DecodedEvent == IF pc = "converted" THEN ret.e ELSE out

TimeText(a) == time \in DOMAIN a /\ a[time].t = "string"

\* The time attribute is a non-empty text that is no RFC 3339 reading.
BadTime(a) == TimeText(a) /\ a[time].s # "" /\ ~TimeParse(a[time].s).ok

\* The extensions holding a value that is neither null nor a boolean, a
\* signed integer, a string or bytes.
BadExtensions(a) ==
  { n \in (DOMAIN a) \ ReservedNames :
      a[n].t \notin {"nil", "bool", "int", "int32", "int64", "string",
                     "[]byte"} }

\* The attributes decoding can fail on.
Offenders(a) ==
  BadExtensions(a)
    \cup (IF TimeText(a) /\ ~TimeParse(a[time].s).ok THEN {time} ELSE {})

(* C11: FromAvro, and Unmarshal through it, fails and returns no event     *)
(* when the record's time is a non-empty text that is no RFC 3339 reading  *)
(* or when an extension holds a value of a type other than boolean, signed *)
(* integer, string or bytes, and the error names an offending attribute;   *)
(* a time text that parses is no cause of failure, and the event returned  *)
(* has the parsed instant as its time.                                     *)
C11_AttributeDecodeErrors ==
  FromAvroRan =>
    LET a == DecodedAttributes
    IN  /\ (BadTime(a) \/ BadExtensions(a) # {}) =>
             /\ err # NoErr
             /\ err.name \in Offenders(a)
             /\ pc = "converted" => ret.isNil
        /\ (TimeText(a) /\ TimeParse(a[time].s).ok) =>
             /\ err.name # time
             /\ err = NoErr =>
                  TimeEqual(DecodedEvent.time, TimeParse(a[time].s).t)

C11_Witness ==
  /\ pc = "converted" /\ ret.isNil
  /\ BadTime(rec.v.Attribute) /\ BadExtensions(rec.v.Attribute) = {"x"}
  /\ err.op = "failed to parse time attribute" /\ err.name = time

C11_WitnessExtension ==
  /\ pc = "converted" /\ ret.isNil
  /\ BadTime(rec.v.Attribute) /\ BadExtensions(rec.v.Attribute) = {"x"}
  /\ err.op = "failed to convert extension" /\ err.name = "x"
  /\ err.type = "float64"

C11_WitnessParsed ==
  /\ pc = "converted" /\ ~ret.isNil
  /\ TimeText(rec.v.Attribute) /\ rec.v.Attribute[time].s = "T61+00:01"
  /\ ret.e.time.sec = 1

C11_WitnessUnmarshal ==
  /\ pc = "decoded" /\ bytes.valid
  /\ BadTime(DecodedAttributes) /\ err.name = time

\* A step that is a call of Unmarshal.
UnmarshalStep ==
  pc \in {"bytes", "marshaled"} /\ pc' \in {"decoded", "unmarshaled"}

\* The events the bytes decode to, whatever the target was.
DecodedEvents ==
  { FromAvro(avroUnmarshal(bytes, w, n).record, f).e :
      w \in BOOLEAN, n \in BOOLEAN, f \in Firsts(DOMAIN bytes.attribute) }

(* C12: a call of Unmarshal that returns an error, from reading the bytes  *)
(* or from converting the record, leaves the target event exactly as it    *)
(* was; a call that succeeds replaces the whole target by the decoded      *)
(* event, keeping nothing of what it held.                                 *)
C12_FailedDecodeKeepsTarget ==
  [][UnmarshalStep =>
       /\ err' # NoErr => out' = out
       /\ err' = NoErr => out' \in DecodedEvents]_vars

\* After a failed conversion of a record read from well-formed bytes, the
\* target still holds the event the caller had put in it.
C12_Witness ==
  /\ pc = "decoded" /\ bytes.valid /\ err # NoErr
  /\ out \in Targets \ {New}
  /\ out.id = "old" /\ out.subject = "j" /\ out.data = DBytes(<<0>>)

C12_WitnessCorrupt ==
  /\ pc = "decoded" /\ ~bytes.valid /\ err.op = "avro: Unmarshal"
  /\ out \in Targets \ {New}

C12_WitnessOverwritten ==
  /\ pc = "decoded" /\ bytes.valid /\ err = NoErr
  /\ out.id = "a" /\ out.subject = "" /\ out.extensions = EmptyMap
  /\ out.data = DBytes(<<255>>)

(***************************************************************************)
(* Properties of the payload codec.  In a state whose last call is an      *)
(* EncodeData or a DecodeData, defaultRegistry is the registry that call   *)
(* found installed.                                                        *)
(***************************************************************************)
Resolving ==
  /\ call.op \in {"EncodeData", "DecodeData"}
  /\ ~(call.op = "EncodeData" /\ call.in.type = "[]byte")

\* The error of a call that found no schema: it names the type and holds
\* the hint.
NoSchemaAvailable(e, type) ==
  /\ e.op \in {"failed to get schema for encoding",
               "failed to get schema for decoding"}
  /\ e.cause = "no schema available for type: "
                 \o "implement SchemaProvider interface or set a SchemaRegistry"
  /\ e.type = type

(* C5: with no registry installed, EncodeData of a value that is no byte   *)
(* slice and provides no schema of its own fails and returns no bytes, and *)
(* DecodeData into such a target fails and leaves the target as it was;    *)
(* the error is the no-schema error, names the type and holds the hint;    *)
(* the schema engine is not called.                                        *)
C5_NoSchema ==
  (Resolving /\ defaultRegistry = "nil" /\ call.in.type \notin ProviderTypes)
    => /\ NoSchemaAvailable(call.err, call.in.type)
       /\ call.isNil
       /\ call.engine = "none"
       /\ call.op = "DecodeData" => call.target = call.in

C5_Witness ==
  /\ call.op = "DecodeData"
  /\ call.in.type = "*avro_test.NoSchemaRecord"
  /\ call.data = <<0>>
  /\ defaultRegistry = "nil"
  /\ setCalls = <<"TestSchemaRegistry", "nil">>
  /\ call.err.type = "*avro_test.NoSchemaRecord"

C5_WitnessEncode ==
  /\ call.op = "EncodeData"
  /\ call.in.type = "main.Sample"
  /\ setCalls = << >>
  /\ call.isNil /\ call.err # NoErr

(* C6: when a registry is installed and answers with no schema for a       *)
(* value that provides none of its own, the call fails with the no-schema  *)
(* error naming the value's type, and the schema engine is never handed a  *)
(* missing schema.                                                         *)
C6_RegistryYieldsNothing ==
  /\ call.engine # "nil schema"
  /\ (/\ Resolving
      /\ call.in.type \notin ProviderTypes
      /\ defaultRegistry # "nil"
      /\ GetSchema(defaultRegistry, call.in) = [schema |-> "", err |-> NoErr])
       => NoSchemaAvailable(call.err, call.in.type)

\* The argument of the last call of SetSchemaRegistry, "nil" when there was
\* none.
LastSet == IF setCalls = << >> THEN "nil" ELSE setCalls[Len(setCalls)]

(* C7: after any calls of SetSchemaRegistry the registry installed is the  *)
(* argument of the last of them (none when there was no call or the last   *)
(* passed nil), whatever EncodeData and DecodeData calls came between; a   *)
(* value providing its own schema is handed to the engine with that schema *)
(* and no registry is asked; for any other value the registry of the last  *)
(* SetSchemaRegistry call is asked, and none when that is nil.             *)
C7_ResolutionOrder ==
  /\ defaultRegistry = LastSet
  /\ Resolving =>
       IF call.in.type \in ProviderTypes
         THEN call.asked = "" /\ call.engine = AvroSchema(call.in)
         ELSE call.asked = (IF LastSet = "nil" THEN "" ELSE LastSet)

C7_Witness ==
  /\ setCalls = <<"TestSchemaRegistry", "nil", "strictRegistry">>
  /\ call.op = "EncodeData"
  /\ call.in.type = "main.Sample"
  /\ call.asked = "strictRegistry"
  /\ call.err = NoErr
  /\ call.result = <<2, 255>>

C7_WitnessProvider ==
  /\ setCalls = <<"strictRegistry">>
  /\ call.op = "DecodeData"
  /\ call.in.type = "*avro_test.TestRecord"
  /\ call.asked = ""
  /\ call.target.b = <<255>>

(* C8: EncodeData of a byte slice succeeds and returns the same bytes,     *)
(* whatever registry is installed; no registry is asked and no schema is   *)
(* handed to the engine.                                                   *)
C8_PassThrough ==
  (call.op = "EncodeData" /\ call.in.type = "[]byte") =>
    /\ call.err = NoErr
    /\ call.result = call.in.b
    /\ call.isNil = call.in.isNil
    /\ call.asked = ""
    /\ call.engine = "none"

C8_Witness ==
  /\ call.op = "EncodeData"
  /\ call.in = Value("[]byte", FALSE, <<255>>)
  /\ call.result = <<255>>
  /\ setCalls = <<"nil", "TestSchemaRegistry">>
  /\ defaultRegistry = "TestSchemaRegistry"

====
